---- MODULE Spec2Model ----
(***************************************************************************)
(* Model of the whatsmycli GPU plugin (src/plugin.cpp): the platform       *)
(* enumerators detect_gpus_linux / detect_gpus_windows / detect_gpus_macos,*)
(* the vendor lookup, and the argument selection of plugin_run.            *)
(*                                                                         *)
(* A std::string is a sequence of one-character strings.  A file is a      *)
(* record [exists, lines]; std::getline yields its lines in order.         *)
(***************************************************************************)
EXTENDS Integers, Sequences, FiniteSets, TLC

VARIABLES
    platform,     \* which PLATFORM_* branch of detect_gpus() the build holds
    pc,           \* position inside plugin_run: "start", "iterate", "select", "done"
    gpus,         \* std::vector<GPUInfo> gpus
    gpu_index,    \* int gpu_index of the enumerator loop
    entry,        \* the directory entry / device the loop body last read
    ncards,       \* primary "cardN" entries (or devices) read so far
    nskipped,     \* filtered-out directory entries read so far
    nvidia_file,  \* /proc/driver/nvidia/version as the loop body last read it
    detected,     \* detect_gpus() has returned (no exception escaped it)
    argc,         \* plugin_run's argc, recorded where the code first reads it
    argv,         \* plugin_run's argv (argv[0] is the subcommand name), likewise
    out,          \* what was written to std::cout
    err,          \* what was written to std::cerr
    ret           \* plugin_run's return value (-1: not returned yet)

vars == <<platform, pc, gpus, gpu_index, entry, ncards, nskipped, nvidia_file,
          detected, argc, argv, out, err, ret>>

---------------------------------------------------------------------------
(* Bounds of the model *)

\* primary entries (cards / devices) one enumeration may hold
MaxCards == 2
\* filtered-out entries (connectors, render nodes) one listing may hold
MaxSkipped == 1
\* largest argc handed to plugin_run
MaxArgc == 3

---------------------------------------------------------------------------
(* std::string helpers *)

npos == -1

\* s.substr(pos)
Substr(s, pos) == SubSeq(s, pos + 1, Len(s))

\* s.substr(pos, n): at most n characters from pos
SubstrN(s, pos, n) ==
    SubSeq(s, pos + 1, IF pos + n < Len(s) THEN pos + n ELSE Len(s))

\* sub occurs in s at 0-based position p
OccursAt(s, sub, p) ==
    /\ p + Len(sub) <= Len(s)
    /\ SubSeq(s, p + 1, p + Len(sub)) = sub

\* s.find(sub): the first position of sub in s, or npos
Find(s, sub) ==
    LET hits == {p \in 0..Len(s) : OccursAt(s, sub, p)}
    IN  IF hits = {} THEN npos
        ELSE CHOOSE p \in hits : \A q \in hits : p <= q

\* ::tolower on one character (the letters the model's strings hold)
LowerChar(c) ==
    CASE c = "A" -> "a" [] c = "B" -> "b" [] c = "C" -> "c" [] c = "D" -> "d"
      [] c = "E" -> "e" [] c = "F" -> "f" [] c = "X" -> "x"
      [] OTHER -> c

\* std::transform(id.begin(), id.end(), id.begin(), ::tolower)
ToLower(s) == [i \in 1..Len(s) |-> LowerChar(s[i])]

\* isspace
IsSpace(c) == c \in {" ", "\t"}

IsDigit(c) == c \in {"0", "1", "2", "3", "4", "5", "6", "7", "8", "9"}

DigitVal(c) ==
    CASE c = "0" -> 0 [] c = "1" -> 1 [] c = "2" -> 2 [] c = "3" -> 3
      [] c = "4" -> 4 [] c = "5" -> 5 [] c = "6" -> 6 [] c = "7" -> 7
      [] c = "8" -> 8 [] c = "9" -> 9

---------------------------------------------------------------------------
(* String literals of the source *)

S_card == <<"c", "a", "r", "d">>
S_dash == <<"-">>
S_PCI_ID == <<"P", "C", "I", "_", "I", "D", "=">>
S_colon == <<":">>
S_0x10de == <<"0", "x", "1", "0", "d", "e">>
S_10de == <<"1", "0", "d", "e">>
S_0x1002 == <<"0", "x", "1", "0", "0", "2">>
S_1002 == <<"1", "0", "0", "2">>
S_0x8086 == <<"0", "x", "8", "0", "8", "6">>
S_8086 == <<"8", "0", "8", "6">>
S_NVIDIA == <<"N", "V", "I", "D", "I", "A">>
S_AMD == <<"A", "M", "D">>
S_Intel == <<"I", "n", "t", "e", "l">>
S_Unknown == <<"U", "n", "k", "n", "o", "w", "n">>
S_GPU == <<" ", "G", "P", "U">>
S_GPU_open == <<" ", "G", "P", "U", " ", "[">>
S_close == <<"]">>
S_KernelModule == <<"K", "e", "r", "n", "e", "l", " ", "M", "o", "d", "u", "l", "e">>
S_VEN == <<"V", "E", "N", "_">>
S_DEV == <<"D", "E", "V", "_">>
S_NA == <<"N", "/", "A">>
S_macName == <<"m", "a", "c", "O", "S", " ", "G", "P", "U">>
S_help == <<"h", "e", "l", "p">>
S_dashdash_help == <<"-", "-", "h", "e", "l", "p">>
S_dash_h == <<"-", "h">>
S_all == <<"a", "l", "l">>
S_gpu == <<"g", "p", "u">>

---------------------------------------------------------------------------
(* get_vendor_name *)

get_vendor_name(vendor_id) ==
    LET id == ToLower(vendor_id)
    IN  IF id = S_0x10de \/ id = S_10de THEN S_NVIDIA
        ELSE IF id = S_0x1002 \/ id = S_1002 THEN S_AMD
        ELSE IF id = S_0x8086 \/ id = S_8086 THEN S_Intel
        ELSE S_Unknown

---------------------------------------------------------------------------
(* The file system the Linux enumerator reads *)

NoFile == [exists |-> FALSE, lines |-> <<>>]
File(lines) == [exists |-> TRUE, lines |-> lines]

\* names found under /sys/class/drm
N_card0 == <<"c", "a", "r", "d", "0">>
N_card1 == <<"c", "a", "r", "d", "1">>
N_card0_HDMI == <<"c", "a", "r", "d", "0", "-", "H", "D", "M", "I", "-", "A", "-", "1">>
N_renderD128 == <<"r", "e", "n", "d", "e", "r", "D", "1", "2", "8">>
N_version == <<"v", "e", "r", "s", "i", "o", "n">>

\* lines found in a device/uevent file
L_DRIVER == <<"D", "R", "I", "V", "E", "R", "=", "x">>
L_SLOT == <<"P", "C", "I", "_", "S", "L", "O", "T", "_", "N", "A", "M", "E", "=", "0">>
L_nvidia == <<"P", "C", "I", "_", "I", "D", "=", "1", "0", "D", "E", ":", "1", "B", "8", "0">>
L_amd == <<"P", "C", "I", "_", "I", "D", "=", "1", "0", "0", "2", ":", "6", "7", "9", "8">>
L_intel == <<"P", "C", "I", "_", "I", "D", "=", "8", "0", "8", "6", ":", "3", "E", "9", "2">>
L_virtio == <<"P", "C", "I", "_", "I", "D", "=", "1", "A", "F", "4", ":", "1", "0", "5", "0">>
L_nocolon == <<"P", "C", "I", "_", "I", "D", "=", "1", "0", "D", "E">>

UeventFiles ==
    { NoFile,
      File(<<>>),
      File(<<L_DRIVER, L_SLOT>>),
      File(<<L_DRIVER, L_nvidia, L_SLOT>>),
      File(<<L_amd>>),
      File(<<L_intel>>),
      File(<<L_virtio>>),
      File(<<L_nocolon>>) }

V_label == <<"L", "b">>
V_product == <<"P", "r">>
V_model == <<"M", "d">>

LabelFiles == {NoFile, File(<<>>), File(<<V_label>>)}
ProductFiles == {NoFile, File(<< <<>>, V_label >>), File(<<V_product>>)}
ModelFiles == {NoFile, File(<< <<>> >>), File(<<V_model, V_label>>)}

\* a primary card: every mix of name files with a complete or a missing
\* uevent, and every uevent with no name file
CardEntries ==
    [name : {N_card0}, uevent : {File(<<L_amd>>)},
     label : LabelFiles, product_name : ProductFiles, model : ModelFiles]
    \cup
    [name : {N_card1}, uevent : UeventFiles,
     label : {NoFile}, product_name : {NoFile}, model : {NoFile}]

\* entries the filter drops: connectors, render nodes, the version file
OtherEntries ==
    [name : {N_card0_HDMI, N_renderD128, N_version}, uevent : {NoFile},
     label : {NoFile}, product_name : {NoFile}, model : {NoFile}]

DirEntries == CardEntries \cup OtherEntries

NoEntry ==
    [name |-> <<>>, uevent |-> NoFile, label |-> NoFile,
     product_name |-> NoFile, model |-> NoFile]

L_nvrm ==
    <<"N", "V", "R", "M", ":", " ", "K", "e", "r", "n", "e", "l", " ",
      "M", "o", "d", "u", "l", "e", " ", " ", "5", "3", "5", ".", "5", "4", " ", " ",
      "T", "u", "e">>
L_gcc == <<"G", "C", "C", " ", "1", "2">>

NvidiaFiles == {NoFile, File(<<L_nvrm, L_gcc>>), File(<<L_gcc>>)}

---------------------------------------------------------------------------
(* detect_gpus_linux *)

\* the filter of the directory loop
IsPrimaryCard(card_name) ==
    Find(card_name, S_card) = 0 /\ Find(card_name, S_dash) = npos

\* one pass of the uevent loop body over `line`
UeventLine(acc, line) ==
    IF Find(line, S_PCI_ID) = 0
    THEN LET pci == Substr(line, 7)
             colon == Find(pci, S_colon)
         IN  IF colon # npos
             THEN [pci_id |-> pci,
                   vendor_id |-> SubstrN(pci, 0, colon),
                   device_id |-> Substr(pci, colon + 1)]
             ELSE [acc EXCEPT !.pci_id = pci]
    ELSE acc

RECURSIVE UeventLoop(_, _, _)
UeventLoop(lines, i, acc) ==
    IF i > Len(lines) THEN acc
    ELSE UeventLoop(lines, i + 1, UeventLine(acc, lines[i]))

\* the uevent block: pci_id and vendor of the card
ReadUevent(uevent) ==
    IF uevent.exists
    THEN LET acc == UeventLoop(uevent.lines, 1,
                       [pci_id |-> <<>>, vendor_id |-> <<>>, device_id |-> <<>>])
         IN  [pci_id |-> acc.pci_id, vendor |-> get_vendor_name(acc.vendor_id)]
    ELSE [pci_id |-> <<>>, vendor |-> <<>>]

\* std::getline(name_file, name) && !name.empty()
NameFileYields(f) == f.exists /\ Len(f.lines) >= 1 /\ f.lines[1] # <<>>

\* mutant of NamePaths: the name files probed in the reverse order
NamePathsReversed(e) == <<e.model, e.product_name, e.label>>

\* the order in which the name files are probed
NamePaths(e) == <<e.label, e.product_name, e.model>>

RECURSIVE ProbeNames(_, _)
ProbeNames(paths, i) ==
    IF i > Len(paths) THEN [name_found |-> FALSE, name |-> <<>>]
    ELSE IF NameFileYields(paths[i])
         THEN [name_found |-> TRUE, name |-> paths[i].lines[1]]
         ELSE ProbeNames(paths, i + 1)

\* gpu.name: a probed name, or the name built from vendor and PCI id
ResolveName(e, vendor, pci_id) ==
    LET probe == ProbeNames(NamePaths(e), 1)
    IN  IF probe.name_found THEN probe.name
        ELSE IF pci_id # <<>> THEN vendor \o S_GPU_open \o pci_id \o S_close
        ELSE vendor \o S_GPU

\* iss >> version: skip whitespace, then the characters up to the next whitespace
RECURSIVE SkipSpace(_)
SkipSpace(s) ==
    IF s # <<>> /\ IsSpace(Head(s)) THEN SkipSpace(Tail(s)) ELSE s

RECURSIVE TakeWord(_)
TakeWord(s) ==
    IF s = <<>> \/ IsSpace(Head(s)) THEN <<>>
    ELSE <<Head(s)>> \o TakeWord(Tail(s))

FirstToken(s) == TakeWord(SkipSpace(s))

VersionLine(driver_version, line) ==
    LET pos == Find(line, S_KernelModule)
    IN  IF pos # npos
        THEN LET version == FirstToken(Substr(line, pos + 13))
             IN  IF version # <<>> THEN version ELSE driver_version
        ELSE driver_version

RECURSIVE VersionLoop(_, _, _)
VersionLoop(lines, i, driver_version) ==
    IF i > Len(lines) THEN driver_version
    ELSE VersionLoop(lines, i + 1, VersionLine(driver_version, lines[i]))

\* gpu.driver_version
ReadDriverVersion(vendor, version_file) ==
    IF vendor = S_NVIDIA /\ version_file.exists
    THEN VersionLoop(version_file.lines, 1, <<>>)
    ELSE <<>>

\* /proc/driver/nvidia/version as the loop body finds it; it is opened for
\* an NVIDIA card only
VersionFileRead(e) ==
    IF ReadUevent(e.uevent).vendor = S_NVIDIA THEN NvidiaFiles ELSE {NoFile}

\* mutant of FirstIsActive: every card marked active
AlwaysActive(index) == TRUE

\* gpu.is_active = (gpu.index == 0)
FirstIsActive(index) == index = 0

\* mutant of PostIncrement: the counter is never advanced
PostIncrementStuck(index) == index

\* gpu_index++ : the value the counter holds afterwards
PostIncrement(index) == index + 1

\* the loop body for one primary card
LinuxGpu(e, index, version_file) ==
    LET u == ReadUevent(e.uevent)
    IN  [index |-> index,
         is_active |-> FirstIsActive(index),
         pci_id |-> u.pci_id,
         vendor |-> u.vendor,
         name |-> ResolveName(e, u.vendor, u.pci_id),
         driver_version |-> ReadDriverVersion(u.vendor, version_file)]

---------------------------------------------------------------------------
(* detect_gpus_windows *)

\* a SetupDiGetDeviceRegistryPropertyA call: it fails, or fills the buffer
NoProp == [ok |-> FALSE, value |-> <<>>]
Prop(value) == [ok |-> TRUE, value |-> value]

W_desc == <<"R", "T", "X">>
W_mfg == <<"N", "V", "I", "D", "I", "A">>
W_driver == <<"{", "4", "d", "}", "\\", "0">>
W_hwid ==
    <<"P", "C", "I", "\\", "V", "E", "N", "_", "1", "0", "D", "E", "&",
      "D", "E", "V", "_", "1", "B", "8", "0">>
W_root == <<"R", "O", "O", "T", "\\", "D", "I", "S", "P">>

WinDevices ==
    [desc : {NoProp, Prop(W_desc)}, mfg : {NoProp, Prop(W_mfg)},
     driver : {Prop(W_driver)}, hwid : {NoProp, Prop(W_hwid), Prop(W_root)}]
    \cup
    [desc : {Prop(W_desc)}, mfg : {Prop(W_mfg)},
     driver : {NoProp}, hwid : {Prop(W_hwid)}]

\* the PCI\VEN_XXXX&DEV_XXXX block
WinPciId(hwid) ==
    IF hwid.ok
    THEN LET ven_pos == Find(hwid.value, S_VEN)
             dev_pos == Find(hwid.value, S_DEV)
         IN  IF ven_pos # npos /\ dev_pos # npos
             THEN SubstrN(hwid.value, ven_pos + 4, 4) \o S_colon
                      \o SubstrN(hwid.value, dev_pos + 4, 4)
             ELSE <<>>
    ELSE <<>>

\* the loop body for one enumerated device
WinGpu(dev, index) ==
    [index |-> index,
     is_active |-> FirstIsActive(index),
     name |-> IF dev.desc.ok THEN dev.desc.value ELSE <<>>,
     vendor |-> IF dev.mfg.ok THEN dev.mfg.value ELSE <<>>,
     driver_version |-> IF dev.driver.ok THEN dev.driver.value ELSE <<>>,
     pci_id |-> WinPciId(dev.hwid)]

---------------------------------------------------------------------------
(* detect_gpus_macos *)

MacGpu ==
    [index |-> 0, is_active |-> TRUE, name |-> S_macName, vendor |-> S_Unknown,
     driver_version |-> S_NA, pci_id |-> S_NA]

---------------------------------------------------------------------------
(* Output: one record per line written to a stream *)

OutLine(k, key, val, idx, act) ==
    [k |-> k, key |-> key, val |-> val, idx |-> idx, act |-> act]

\* print_header(text): the text is "<title> <number>", with " (Active)" or not
print_header(title, number, active) ==
    <<OutLine("header", title, <<>>, number, active),
      OutLine("rule", "=", <<>>, 50, FALSE)>>

print_field(key, value) == <<OutLine("field", key, value, 0, FALSE)>>

\* display_gpu(gpu, brief)
display_gpu(gpu, brief) ==
    IF brief
    THEN <<OutLine("gpu", "GPU", <<>>, gpu.index, gpu.is_active)>>
         \o print_field("Name", gpu.name)
         \o print_field("Vendor", gpu.vendor)
         \o (IF gpu.pci_id # <<>> THEN print_field("PCI ID", gpu.pci_id) ELSE <<>>)
    ELSE print_header("GPU", gpu.index, gpu.is_active)
         \o print_field("Name", gpu.name)
         \o print_field("Vendor", gpu.vendor)
         \o (IF gpu.driver_version # <<>> /\ gpu.driver_version # S_NA
             THEN print_field("Driver Version", gpu.driver_version) ELSE <<>>)
         \o (IF gpu.pci_id # <<>> /\ gpu.pci_id # S_NA
             THEN print_field("PCI ID", gpu.pci_id) ELSE <<>>)

BlankLine == <<OutLine("blank", "", <<>>, 0, FALSE)>>

RECURSIVE BriefBlocks(_, _)
BriefBlocks(g, i) ==
    IF i > Len(g) THEN <<>>
    ELSE display_gpu(g[i], TRUE)
         \o (IF i # Len(g) THEN BlankLine ELSE <<>>)
         \o BriefBlocks(g, i + 1)

\* display_all_gpus(gpus)
display_all_gpus(g) ==
    IF g = <<>> THEN <<OutLine("text", "No GPUs detected.", <<>>, 0, FALSE)>>
    ELSE print_header("All GPUs detected", Len(g), FALSE) \o BriefBlocks(g, 1)

\* display_help()
display_help ==
    <<OutLine("text", "GPU Plugin for whatsmycli", <<>>, 0, FALSE),
      OutLine("text", "Usage:", <<>>, 0, FALSE),
      OutLine("text", "whatsmy gpu", <<>>, 0, FALSE),
      OutLine("text", "whatsmy gpu all", <<>>, 0, FALSE),
      OutLine("text", "whatsmy gpu <index>", <<>>, 0, FALSE),
      OutLine("text", "whatsmy gpu help", <<>>, 0, FALSE)>>

---------------------------------------------------------------------------
(* std::stoi *)

INT_MAX == 2147483647
INT_MIN == -INT_MAX - 1

\* magnitude markers: the digits read so far denote 2^31, or more than 2^31
Is2p31 == -1
Beyond == -2

\* one more digit d after the magnitude acc
Accumulate(acc, d) ==
    IF acc < 0 THEN Beyond
    ELSE IF acc <= (INT_MAX - d) \div 10 THEN acc * 10 + d
    ELSE IF acc = INT_MAX \div 10 /\ d = (INT_MAX % 10) + 1 THEN Is2p31
    ELSE Beyond

\* the leading run of digits of s, as a magnitude
RECURSIVE Magnitude(_, _)
Magnitude(s, acc) ==
    IF s = <<>> \/ ~IsDigit(Head(s)) THEN acc
    ELSE Magnitude(Tail(s), Accumulate(acc, DigitVal(Head(s))))

StoiOk(value) == [status |-> "ok", value |-> value]
StoiThrows(what) == [status |-> what, value |-> 0]

\* std::stoi(arg): leading whitespace, an optional sign, then digits; what
\* follows the digits is ignored
stoi(arg) ==
    LET t == SkipSpace(arg)
        signed == t # <<>> /\ Head(t) \in {"+", "-"}
        negative == t # <<>> /\ Head(t) = "-"
        digits == IF signed THEN Tail(t) ELSE t
    IN  IF digits = <<>> \/ ~IsDigit(Head(digits))
        THEN StoiThrows("invalid_argument")
        ELSE LET m == Magnitude(digits, 0)
             IN  IF m >= 0 THEN StoiOk(IF negative THEN -m ELSE m)
                 ELSE IF negative /\ m = Is2p31 THEN StoiOk(INT_MIN)
                 ELSE StoiThrows("out_of_range")

---------------------------------------------------------------------------
(* plugin_run: what follows detect_gpus() *)

Result(o, e, r) == [out |-> o, err |-> e, ret |-> r]

ErrLine(key) == OutLine("text", key, <<>>, 0, FALSE)

\* the gpus.empty() block
NoGpusDetected ==
    Result(<<>>,
           <<ErrLine("Warning: No GPUs detected."),
             ErrLine("This could mean:"),
             ErrLine("  - No GPU is present in the system"),
             ErrLine("  - GPU drivers are not installed"),
             ErrLine("  - Insufficient permissions to access GPU information")>>,
           1)

\* the argc == 1 block: the first active GPU, else the first GPU
ShowActive(g) ==
    LET act == {i \in 1..Len(g) : g[i].is_active}
    IN  IF act # {}
        THEN Result(display_gpu(g[CHOOSE i \in act : \A j \in act : i <= j], FALSE),
                    <<>>, 0)
        ELSE Result(display_gpu(g[1], FALSE), <<>>, 0)

\* mutant of IsHelp: the short flag is not recognised
IsHelpNoShort(arg) == arg = S_help \/ arg = S_dashdash_help

IsHelp(arg) == arg = S_help \/ arg = S_dashdash_help \/ arg = S_dash_h

IsAll(arg) == arg = S_all

\* mutant of IndexOutOfRange: the diagnostic goes to std::cout
IndexOutOfRangeOnStdout(index, size) ==
    [out |-> <<OutLine("error", "GPU index out of range.", <<>>, index, FALSE),
               OutLine("range", "Available GPUs: 0-", <<>>, size - 1, FALSE)>>,
     err |-> <<>>,
     ret |-> 1]

\* the index < 0 || index >= gpus.size() block
IndexOutOfRange(index, size) ==
    Result(<<>>,
           <<OutLine("error", "GPU index out of range.", <<>>, index, FALSE),
             OutLine("range", "Available GPUs: 0-", <<>>, size - 1, FALSE)>>,
           1)

\* the inner catch block
InvalidArgument(arg) ==
    Result(<<>>,
           <<OutLine("error", "Invalid argument", arg, 0, FALSE),
             ErrLine("Use 'whatsmy gpu help' for usage information.")>>,
           1)

\* the final else block
TooManyArguments ==
    Result(<<>>,
           <<ErrLine("Error: Too many arguments."),
             ErrLine("Use 'whatsmy gpu help' for usage information.")>>,
           1)

\* the outer catch blocks
UnexpectedException ==
    Result(<<>>, <<OutLine("error", "Error: ", <<"w", "h", "a", "t">>, 0, FALSE)>>, 1)

\* the try { stoi ... } catch block
SelectIndex(g, arg) ==
    LET parsed == stoi(arg)
    IN  IF parsed.status = "ok"
        THEN IF parsed.value < 0 \/ parsed.value >= Len(g)
             THEN IndexOutOfRange(parsed.value, Len(g))
             ELSE Result(display_gpu(g[parsed.value + 1], FALSE), <<>>, 0)
        ELSE InvalidArgument(arg)

\* mutant of RunResult: the arguments are looked at before gpus.empty()
RunResultArgsFirst(g, ac, av) ==
    IF ac = 2 /\ IsHelp(av[2]) THEN Result(display_help, <<>>, 0)
    ELSE IF ac = 2 /\ IsAll(av[2]) THEN Result(display_all_gpus(g), <<>>, 0)
    ELSE IF g = <<>> THEN NoGpusDetected
    ELSE IF ac = 1 THEN ShowActive(g)
    ELSE IF ac = 2 THEN SelectIndex(g, av[2])
    ELSE TooManyArguments

\* the body of plugin_run once detect_gpus() has returned g
RunResult(g, ac, av) ==
    IF g = <<>> THEN NoGpusDetected
    ELSE IF ac = 1 THEN ShowActive(g)
    ELSE IF ac = 2
         THEN IF IsHelp(av[2]) THEN Result(display_help, <<>>, 0)
              ELSE IF IsAll(av[2]) THEN Result(display_all_gpus(g), <<>>, 0)
              ELSE SelectIndex(g, av[2])
    ELSE TooManyArguments

---------------------------------------------------------------------------
(* The arguments the host CLI passes *)

A_0 == <<"0">>
A_1 == <<"1">>
A_2 == <<"2">>
A_3 == <<"3">>
A_5 == <<"5">>
A_01 == <<"0", "1">>
A_minus1 == <<"-", "1">>
A_plus1 == <<"+", "1">>
A_space1 == <<" ", "1">>
A_xyz == <<"x", "y", "z">>
A_1abc == <<"1", "a", "b", "c">>
A_empty == <<>>
A_minus == <<"-">>
A_intmax == <<"2", "1", "4", "7", "4", "8", "3", "6", "4", "7">>
A_intmax1 == <<"2", "1", "4", "7", "4", "8", "3", "6", "4", "8">>
A_huge == <<"9", "9", "9", "9", "9", "9", "9", "9", "9", "9", "9">>
A_intmin == <<"-", "2", "1", "4", "7", "4", "8", "3", "6", "4", "8">>
A_intmin1 == <<"-", "2", "1", "4", "7", "4", "8", "3", "6", "4", "9">>

ArgList ==
    << S_help, S_dashdash_help, S_dash_h, S_all,
       A_0, A_1, A_2, A_3, A_5, A_01, A_1abc, A_xyz, A_empty, A_minus,
       A_minus1, A_plus1, A_space1,
       A_intmax, A_huge, A_intmax1, A_intmin, A_intmin1 >>

\* argv for an argc other than 2: nothing, the subcommand name alone, or the
\* subcommand name and more than one argument
ArgLists(n) ==
    IF n = 0 THEN {<<>>}
    ELSE IF n = 1 THEN {<<S_gpu>>}
    ELSE {<<S_gpu, a>> \o [i \in 1..(n - 2) |-> A_xyz] : a \in {S_help, A_0}}

Platforms == {"linux", "windows", "macos", "other"}

---------------------------------------------------------------------------
(* The state machine *)

Init ==
    /\ platform \in Platforms
    /\ pc = "start"
    /\ gpus = <<>>
    /\ gpu_index = 0
    /\ entry = NoEntry
    /\ ncards = 0
    /\ nskipped = 0
    /\ nvidia_file = NoFile
    /\ detected = FALSE
    /\ argc = 0
    /\ argv = <<>>
    /\ out = <<>>
    /\ err = <<>>
    /\ ret = -1

\* detect_gpus() returns the vector g to plugin_run; the enumerator's locals
\* go out of scope
Returned(g) ==
    /\ gpus' = g
    /\ detected' = TRUE
    /\ pc' = "select"
    /\ entry' = NoEntry
    /\ nvidia_file' = NoFile
    /\ gpu_index' = 0
    /\ ncards' = 0
    /\ nskipped' = 0

\* plugin_run reads its arguments: any argc, any argument strings
ReadArgs ==
    \/ \E i \in 1..Len(ArgList) :
          /\ argc' = 2
          /\ argv' = <<S_gpu, ArgList[i]>>
    \/ \E n \in (0..MaxArgc) \ {2} : \E av \in ArgLists(n) :
          /\ argc' = n
          /\ argv' = av

\* Linux: /sys/class/drm does not exist
DrmMissing ==
    /\ pc = "start" /\ platform = "linux"
    /\ Returned(gpus)
    /\ UNCHANGED <<platform, argc, argv, out, err, ret>>

\* Linux: the directory iterator is opened
DrmOpen ==
    /\ pc = "start" /\ platform = "linux"
    /\ pc' = "iterate"
    /\ UNCHANGED <<platform, gpus, gpu_index, entry, ncards, nskipped, nvidia_file,
                   detected, argc, argv, out, err, ret>>

\* Linux: one pass of the directory loop over a primary card
LinuxCard ==
    /\ pc = "iterate" /\ platform = "linux"
    /\ ncards < MaxCards
    /\ \E e \in DirEntries : \E version_file \in VersionFileRead(e) :
          /\ IsPrimaryCard(e.name)
          /\ entry' = e
          /\ nvidia_file' = version_file
          /\ gpus' = Append(gpus, LinuxGpu(e, gpu_index, version_file))
    /\ gpu_index' = PostIncrement(gpu_index)
    /\ ncards' = ncards + 1
    /\ UNCHANGED <<platform, pc, nskipped, detected, argc, argv, out, err, ret>>

\* Linux: one pass of the directory loop over an entry the filter drops
LinuxSkip ==
    /\ pc = "iterate" /\ platform = "linux"
    /\ nskipped < MaxSkipped
    /\ \E e \in DirEntries :
          /\ ~IsPrimaryCard(e.name)
          /\ entry' = e
    /\ nskipped' = nskipped + 1
    /\ UNCHANGED <<platform, pc, gpus, gpu_index, ncards, nvidia_file, detected,
                   argc, argv, out, err, ret>>

\* Linux: the directory is exhausted
LinuxEnd ==
    /\ pc = "iterate" /\ platform = "linux"
    /\ Returned(gpus)
    /\ UNCHANGED <<platform, argc, argv, out, err, ret>>

\* Linux: fs::exists or fs::directory_iterator throws filesystem_error; the
\* stack unwinds (plugin_run's gpus is never constructed) into the outer catch
FilesystemError ==
    /\ pc \in {"start", "iterate"} /\ platform = "linux"
    /\ pc' = "done"
    /\ out' = UnexpectedException.out
    /\ err' = UnexpectedException.err
    /\ ret' = UnexpectedException.ret
    /\ gpus' = <<>>
    /\ entry' = NoEntry
    /\ nvidia_file' = NoFile
    /\ gpu_index' = 0
    /\ ncards' = 0
    /\ nskipped' = 0
    /\ UNCHANGED <<platform, detected, argc, argv>>

\* Windows: SetupDiGetClassDevs returns INVALID_HANDLE_VALUE
WinNoDeviceSet ==
    /\ pc = "start" /\ platform = "windows"
    /\ Returned(gpus)
    /\ UNCHANGED <<platform, argc, argv, out, err, ret>>

\* Windows: the device information set is obtained
WinOpen ==
    /\ pc = "start" /\ platform = "windows"
    /\ pc' = "iterate"
    /\ UNCHANGED <<platform, gpus, gpu_index, entry, ncards, nskipped, nvidia_file,
                   detected, argc, argv, out, err, ret>>

\* Windows: one pass of the SetupDiEnumDeviceInfo loop
WinDevice ==
    /\ pc = "iterate" /\ platform = "windows"
    /\ ncards < MaxCards
    /\ \E dev \in WinDevices :
          gpus' = Append(gpus, WinGpu(dev, gpu_index))
    /\ gpu_index' = PostIncrement(gpu_index)
    /\ ncards' = ncards + 1
    /\ UNCHANGED <<platform, pc, entry, nskipped, nvidia_file, detected,
                   argc, argv, out, err, ret>>

\* Windows: SetupDiEnumDeviceInfo fails, the set is destroyed
WinEnd ==
    /\ pc = "iterate" /\ platform = "windows"
    /\ Returned(gpus)
    /\ UNCHANGED <<platform, argc, argv, out, err, ret>>

\* macOS: the placeholder record
MacDetect ==
    /\ pc = "start" /\ platform = "macos"
    /\ Returned(<<MacGpu>>)
    /\ UNCHANGED <<platform, argc, argv, out, err, ret>>

\* no PLATFORM_* macro: detect_gpus() returns {}
OtherDetect ==
    /\ pc = "start" /\ platform = "other"
    /\ Returned(<<>>)
    /\ UNCHANGED <<platform, argc, argv, out, err, ret>>

\* plugin_run from the gpus.empty() test to its return
Select ==
    /\ pc = "select"
    /\ ReadArgs
    /\ LET r == RunResult(gpus, argc', argv')
       IN  /\ out' = r.out
           /\ err' = r.err
           /\ ret' = r.ret
    /\ pc' = "done"
    /\ UNCHANGED <<platform, gpus, gpu_index, entry, ncards, nskipped, nvidia_file,
                   detected>>

Next ==
    \/ DrmMissing
    \/ DrmOpen
    \/ LinuxCard
    \/ LinuxSkip
    \/ LinuxEnd
    \/ FilesystemError
    \/ WinNoDeviceSet
    \/ WinOpen
    \/ WinDevice
    \/ WinEnd
    \/ MacDetect
    \/ OtherDetect
    \/ Select

Spec == Init /\ [][Next]_vars

---------------------------------------------------------------------------
(* Vocabulary of the properties *)

HelpWords == {S_help, S_dashdash_help, S_dash_h}
Keywords == HelpWords \cup {S_all}
VendorNames == {S_NVIDIA, S_AMD, S_Intel, S_Unknown}

\* plugin_run has returned after detect_gpus() returned to it
Done == pc = "done" /\ detected

\* Done, with exactly one argument after the subcommand name
DoneOneArg == Done /\ argc = 2

\* a non-empty string of decimal digits
AllDigits(s) == s # <<>> /\ \A i \in 1..Len(s) : IsDigit(s[i])

NoDigit(s) == \A i \in 1..Len(s) : ~IsDigit(s[i])

RECURSIVE StripZeros(_)
StripZeros(s) ==
    IF Len(s) > 1 /\ Head(s) = "0" THEN StripZeros(Tail(s)) ELSE s

\* the number a string of at most nine digits denotes
RECURSIVE Decimal(_)
Decimal(s) ==
    IF s = <<>> THEN 0
    ELSE Decimal(SubSeq(s, 1, Len(s) - 1)) * 10 + DigitVal(s[Len(s)])

\* the number the digit string s denotes is below n (n itself below 10^9)
DenotesBelow(s, n) ==
    LET t == StripZeros(s) IN Len(t) <= 9 /\ Decimal(t) < n

\* the first line of a name file, empty when there is none
FirstLineOf(f) == IF f.exists /\ f.lines # <<>> THEN f.lines[1] ELSE <<>>

\* the name the card read from directory entry e should carry
ExpectedName(e, vendor, pci_id) ==
    LET cands == <<FirstLineOf(e.label), FirstLineOf(e.product_name),
                   FirstLineOf(e.model)>>
        found == {i \in 1..3 : cands[i] # <<>>}
    IN  IF found # {} THEN cands[CHOOSE i \in found : \A j \in found : i <= j]
        ELSE IF pci_id # <<>> THEN vendor \o S_GPU_open \o pci_id \o S_close
        ELSE vendor \o S_GPU

\* the loop body of detect_gpus_linux has just pushed the card read from entry
CardJustRead ==
    /\ platform = "linux" /\ pc = "iterate"
    /\ gpus # <<>>
    /\ entry.name \in {N_card0, N_card1}

\* s is vendorHex:deviceHex with both halves present
IsHexChar(c) == IsDigit(c) \/ LowerChar(c) \in {"a", "b", "c", "d", "e", "f"}

IsVendorColonDevice(s) ==
    LET colon == Find(s, S_colon)
    IN  /\ colon > 0
        /\ colon < Len(s) - 1
        /\ \A i \in 1..Len(s) : i # colon + 1 => IsHexChar(s[i])

---------------------------------------------------------------------------
(* Properties *)

\* C1: whatever the arguments (help and all included), when detect_gpus()
\* returns an empty vector plugin_run writes the no-GPU warning to the error
\* stream, returns 1 and writes nothing else: no record, no usage text, no
\* argument diagnostic.
C1_NoGpusBeforeArguments ==
    (Done /\ gpus = <<>>) =>
        /\ ret = 1
        /\ out = <<>>
        /\ Len(err) = 5
        /\ err[1].key = "Warning: No GPUs detected."
        /\ \A i \in 1..Len(err) : err[i].k = "text"

C1_Witness ==
    /\ DoneOneArg /\ gpus = <<>>
    /\ argv[2] \in Keywords
    /\ ret = 1

\* C2 as stated: with the single argument help, --help or -h plugin_run prints
\* the usage text and returns 0 whatever detect_gpus() returned.
C2_HelpWhateverEnumerated ==
    (DoneOneArg /\ argv[2] \in HelpWords) =>
        (out = display_help /\ ret = 0)

\* C2 amended: with the single argument help, --help or -h and at least one
\* record enumerated, plugin_run prints the usage text to the standard output,
\* nothing to the error stream, and returns 0.
C2_HelpWhenGpusFound ==
    (DoneOneArg /\ argv[2] \in HelpWords /\ gpus # <<>>) =>
        (out = display_help /\ err = <<>> /\ ret = 0)

C2_Witness ==
    /\ DoneOneArg /\ argv[2] = S_dash_h
    /\ Len(gpus) >= 1
    /\ out = display_help

\* C3: a single argument that is a string of digits denoting i, of any
\* magnitude, with N >= 1 records: if i < N exactly record i is displayed and
\* 0 returned; otherwise the index-out-of-range diagnostic naming 0-(N-1) is
\* written and 1 returned.  Stated of the Linux build.
C3_DigitsSelectOrOutOfRange ==
    (DoneOneArg /\ platform = "linux" /\ gpus # <<>> /\ AllDigits(argv[2])) =>
        IF DenotesBelow(argv[2], Len(gpus))
        THEN /\ out = display_gpu(gpus[Decimal(StripZeros(argv[2])) + 1], FALSE)
             /\ err = <<>>
             /\ ret = 0
        ELSE /\ out = <<>>
             /\ Len(err) = 2
             /\ err[1].key = "GPU index out of range."
             /\ err[2].key = "Available GPUs: 0-" /\ err[2].idx = Len(gpus) - 1
             /\ ret = 1

\* C4: a single argument that is neither a keyword nor a string of digits
\* ("xyz", "-1", "1abc"), with N >= 1 records: the invalid-argument diagnostic
\* is written, no record is displayed and 1 is returned.  Stated of the Linux
\* build.
C4_NonIntegerIsInvalidArgument ==
    (DoneOneArg /\ platform = "linux" /\ gpus # <<>>
        /\ argv[2] \notin Keywords /\ ~AllDigits(argv[2])) =>
        /\ out = <<>>
        /\ err # <<>> /\ err[1].key = "Invalid argument"
        /\ ret = 1

\* C5: every run ends with exit code 0 or 1; a run that returns 1 wrote to the
\* error stream only and a run that returns 0 wrote to the standard output
\* only; the error paths (exception, no GPUs, more than one argument, index
\* out of range, argument with no digit in it) return 1 and the success paths
\* (no argument, help, all, index in range) return 0.
C5_ExitCodesAndStreams ==
    (pc = "done") =>
        /\ ret \in {0, 1}
        /\ ret = 1 => (out = <<>> /\ err # <<>>)
        /\ ret = 0 => (err = <<>> /\ out # <<>>)
        /\ ~detected => ret = 1
        /\ (detected /\ gpus = <<>>) => ret = 1
        /\ (detected /\ gpus # <<>>) =>
              /\ argc = 1 => ret = 0
              /\ argc > 2 => ret = 1
              /\ (argc = 2 /\ argv[2] \in Keywords) => ret = 0
              /\ (argc = 2 /\ AllDigits(argv[2])) =>
                    (ret = 0 <=> DenotesBelow(argv[2], Len(gpus)))
              /\ (argc = 2 /\ argv[2] \notin Keywords /\ NoDigit(argv[2])) => ret = 1

C5_Witness ==
    /\ DoneOneArg /\ gpus # <<>>
    /\ argv[2] = A_5
    /\ ret = 1 /\ out = <<>>
    /\ err[1].key = "GPU index out of range."

\* C6: every record the enumerator produces has a vendor that is one of
\* NVIDIA, AMD, Intel, Unknown (so never empty), also when the card has no
\* uevent file or no PCI_ID line in it.  Stated of the Linux build.
C6_VendorAlwaysPopulated ==
    platform = "linux" =>
        \A k \in 1..Len(gpus) : gpus[k].vendor \in VendorNames

\* C7: in every enumeration result, whatever cards and filtered-out entries
\* the listing held and in whatever order, the record at position k has index
\* k, so the indices are exactly 0..N-1 with no duplicate and no gap.
C7_IndicesContiguous ==
    /\ \A k \in 1..Len(gpus) : gpus[k].index = k - 1
    /\ {gpus[k].index : k \in 1..Len(gpus)} = 0..(Len(gpus) - 1)

C7_Witness ==
    /\ CardJustRead
    /\ Len(gpus) = 2
    /\ nskipped >= 1
    /\ gpus[2].index = 1

\* C8: in every enumeration result with N >= 1 records exactly one record is
\* active and it is the one with index 0; plugin_run with no argument then
\* displays the record with index 0 and returns 0.
C8_FirstIsTheActiveOne ==
    /\ gpus # <<>> =>
          /\ Cardinality({k \in 1..Len(gpus) : gpus[k].is_active}) = 1
          /\ \A k \in 1..Len(gpus) : gpus[k].is_active <=> gpus[k].index = 0
    /\ (Done /\ gpus # <<>> /\ argc = 1) =>
          /\ out = display_gpu(gpus[1], FALSE)
          /\ out[1].idx = 0
          /\ ret = 0

C8_Witness ==
    /\ Done /\ argc = 1
    /\ Len(gpus) = 2
    /\ out[1].k = "header" /\ out[1].idx = 0 /\ out[1].act
    /\ ret = 0

\* C9: every record's pciId is empty or vendorHex:deviceHex with both halves
\* present; a PCI_ID value with no colon leaves pciId empty.  Stated of the
\* Linux build.
C9_PciIdEmptyOrPair ==
    platform = "linux" =>
        \A k \in 1..Len(gpus) :
            gpus[k].pci_id = <<>> \/ IsVendorColonDevice(gpus[k].pci_id)

\* C10: the name of a card enumerated from sysfs is the first non-empty value
\* among label, product_name, model in that order, absent and empty sources
\* skipped; with no such value it is "<vendor> GPU [<pciId>]" when pciId is
\* not empty and "<vendor> GPU" otherwise; it is never empty.
C10_NameFirstSourceOrFallback ==
    /\ CardJustRead =>
          LET gpu == gpus[Len(gpus)]
          IN  gpu.name = ExpectedName(entry, gpu.vendor, gpu.pci_id)
    /\ platform = "linux" => \A k \in 1..Len(gpus) : gpus[k].name # <<>>

C10_Witness ==
    /\ CardJustRead
    /\ entry.label.exists /\ FirstLineOf(entry.label) = <<>>
    /\ entry.product_name.exists /\ FirstLineOf(entry.product_name) = <<>>
    /\ gpus[Len(gpus)].name = V_model

\* C10, the fallback: no name source yields a value
C10_FallbackWitness ==
    /\ CardJustRead
    /\ ~entry.label.exists /\ ~entry.product_name.exists /\ ~entry.model.exists
    /\ gpus[Len(gpus)].vendor = S_AMD
    /\ gpus[Len(gpus)].name = S_AMD \o S_GPU_open \o gpus[Len(gpus)].pci_id \o S_close

====
